---- MODULE Spec2Model ----
(***************************************************************************)
(* tokencrush: the semantic cache (cache.py), the free-tier provider       *)
(* rotator (free_api.py), the local provider (local.py) and the smart      *)
(* router (router.py) as one state machine.                                *)
(*                                                                         *)
(* Texts are sequences of one-character strings, so that str.strip() and   *)
(* truthiness are computed, not assumed.  Embeddings are integer vectors   *)
(* of dimension 2; a normalized vector has length UnitLen, and a           *)
(* similarity is the inner product of two normalized vectors scaled to     *)
(* hundredths (1.0 is SimScale).  Time is in whole seconds.                *)
(***************************************************************************)
EXTENDS Integers, Sequences, FiniteSets, TLC

VARIABLES
    cache,      \* the SemanticCache object and its SQLite table
    usage,      \* FreeAPIManager.usage: provider -> UsageStats
    quota_file, \* content of quotas.json on disk
    keys,       \* providers for which an API key is configured
    now,        \* time.time()
    lastOp,     \* the operation the last step performed, with its arguments
    result,     \* what that operation returned or raised
    calls,      \* the collaborator calls that operation made, in order
    threads     \* per thread, the cache call it is in the middle of

vars == <<cache, usage, quota_file, keys, now, lastOp, result, calls, threads>>

(***************************************************************************)
(* Bounds of the model.                                                    *)
(***************************************************************************)
MaxTime == 2
MaxRowId == 3
MaxQueries == 3
EvictSize == 20
MaxCalls == 2
QuotaMaxTime == 120

(***************************************************************************)
(* Texts.                                                                  *)
(***************************************************************************)
EmptyText == << >>
SpaceText == <<" ">>
QA == <<"a">>
QA2 == <<"A">>
QB == <<"b">>
QC == <<"c">>
QAPad == <<"a", " ">>
QZ == <<"z">>
RX == <<"x">>
RY == <<"y">>

Whitespace == {" "}

RECURSIVE LStrip(_)
LStrip(s) ==
    IF s = << >> THEN << >>
    ELSE IF Head(s) \in Whitespace THEN LStrip(Tail(s)) ELSE s

RECURSIVE RStrip(_)
RStrip(s) ==
    IF s = << >> THEN << >>
    ELSE IF s[Len(s)] \in Whitespace THEN RStrip(SubSeq(s, 1, Len(s) - 1)) ELSE s

\* str.strip()
Strip(s) == RStrip(LStrip(s))

\* `not text or not text.strip()`
IsBlank(s) == s = << >> \/ Strip(s) = << >>

\* `not text`
IsFalsy(s) == s = << >>

RECURSIVE SplitCount(_, _)
SplitCount(s, inWord) ==
    IF s = << >> THEN 0
    ELSE IF Head(s) \in Whitespace THEN SplitCount(Tail(s), FALSE)
    ELSE (IF inWord THEN 0 ELSE 1) + SplitCount(Tail(s), TRUE)

\* len(text.split())
WordCount(s) == SplitCount(s, FALSE)

(***************************************************************************)
(* Optional values.                                                        *)
(***************************************************************************)
None == [tag |-> "None", text |-> << >>]
Some(t) == [tag |-> "Some", text |-> t]

(***************************************************************************)
(* Embeddings and the FAISS inner-product index.                           *)
(***************************************************************************)
UnitLen == 5
SimScale == 100

\* SentenceTransformer.encode: deterministic, not normalized
Encode(text) ==
    CASE text = QA -> <<3, 4>>
      [] text = QA2 -> <<6, 8>>
      [] text = QAPad -> <<3, 4>>
      [] text = QB -> <<4, 3>>
      [] text = QC -> <<0, 5>>
      [] OTHER -> <<5, 0>>

RECURSIVE ISqrtFrom(_, _)
ISqrtFrom(n, r) == IF (r + 1) * (r + 1) > n THEN r ELSE ISqrtFrom(n, r + 1)

\* np.linalg.norm
Norm(v) == ISqrtFrom(v[1] * v[1] + v[2] * v[2], 0)

\* embedding / np.linalg.norm(embedding), faiss.normalize_L2
Normalize(v) == <<(v[1] * UnitLen) \div Norm(v), (v[2] * UnitLen) \div Norm(v)>>

GenerateEmbedding(text) == Normalize(Encode(text))

\* inner product of two normalized vectors
InnerProduct(u, v) ==
    ((u[1] * v[1] + u[2] * v[2]) * SimScale) \div (UnitLen * UnitLen)

\* IndexFlatIP.search(v, k=1): the best position (0-based) and its similarity;
\* the sequential scan keeps the first of equal maxima
IndexSearch(index, v) ==
    LET best == CHOOSE i \in 1..Len(index) :
            /\ \A j \in 1..Len(index) : InnerProduct(index[j], v) <= InnerProduct(index[i], v)
            /\ \A j \in 1..(i - 1) : InnerProduct(index[j], v) < InnerProduct(index[i], v)
    IN [position |-> best - 1, similarity |-> InnerProduct(index[best], v)]

(***************************************************************************)
(* SemanticCache.                                                          *)
(***************************************************************************)
DEFAULT_THRESHOLD == 85
SweepEvery == 100

RowIds(rows) == {rows[i].id : i \in 1..Len(rows)}

RowById(rows, id) == rows[CHOOSE i \in 1..Len(rows) : rows[i].id = id]

\* rows whose index is in keep, in table order
RECURSIVE KeepRows(_, _)
KeepRows(rows, keep) ==
    IF rows = << >> THEN << >>
    ELSE (IF Head(rows).id \in keep THEN <<Head(rows)>> ELSE << >>)
             \o KeepRows(Tail(rows), keep)

\* a rebuild that fills the index and keeps the position map it finds
InitFaissIndexStaleMap(c) ==
    [c EXCEPT !.index = [i \in 1..Len(c.rows) |-> Normalize(c.rows[i].embedding)]]

\* SELECT id, embedding ... ORDER BY id; rebuilds _index and _id_map
InitFaissIndex(c) ==
    [c EXCEPT
        !.index = [i \in 1..Len(c.rows) |-> Normalize(c.rows[i].embedding)],
        !.id_map = [p \in 0..(Len(c.rows) - 1) |-> c.rows[p + 1].id]]

\* an eviction that deletes nothing
DeleteCountNone(count) == 0

\* max(1, count // 10)
DeleteCount(count) == IF count \div 10 > 1 THEN count \div 10 ELSE 1

\* an eviction order by insertion alone
InsertedBefore(a, b) == a.id < b.id

\* row a comes before row b in ORDER BY last_accessed ASC (index order: then rowid)
AccessedBefore(a, b) ==
    \/ a.last_accessed < b.last_accessed
    \/ a.last_accessed = b.last_accessed /\ a.id < b.id

\* the ids of the n first rows in ORDER BY last_accessed ASC LIMIT n
OldestIds(rows, n) ==
    {rows[i].id : i \in {k \in 1..Len(rows) :
        Cardinality({j \in 1..Len(rows) : AccessedBefore(rows[j], rows[k])}) < n}}

EvictIfNeeded(c) ==
    IF Len(c.rows) >= c.max_size
    THEN InitFaissIndex(
            [c EXCEPT !.rows = KeepRows(c.rows,
                RowIds(c.rows) \ OldestIds(c.rows, DeleteCount(Len(c.rows))))])
    ELSE c

\* a sweep that also deletes the entries whose age is exactly ttl
CleanExpiredInclusive(c, t) ==
    IF c.ttl <= 0 THEN c
    ELSE LET expired == {c.rows[i].id : i \in {k \in 1..Len(c.rows) :
                            c.rows[k].timestamp <= t - c.ttl}}
         IN IF expired # {}
            THEN InitFaissIndex([c EXCEPT !.rows = KeepRows(c.rows, RowIds(c.rows) \ expired)])
            ELSE c

\* _clean_expired: DELETE ... WHERE timestamp < now - ttl, then the index rebuild
CleanExpired(c, t) ==
    IF c.ttl <= 0 THEN c
    ELSE LET expired == {c.rows[i].id : i \in {k \in 1..Len(c.rows) :
                            c.rows[k].timestamp < t - c.ttl}}
         IN IF expired # {}
            THEN InitFaissIndex([c EXCEPT !.rows = KeepRows(c.rows, RowIds(c.rows) \ expired)])
            ELSE c

Miss(c) == [cache |-> [c EXCEPT !.cache_misses = @ + 1], value |-> None]

\* an UPDATE without the WHERE clause: every row is touched
TouchAll(c, id, t) ==
    [c EXCEPT
        !.rows = [i \in 1..Len(c.rows) |->
                    [c.rows[i] EXCEPT !.access_count = @ + 1, !.last_accessed = t]],
        !.cache_hits = @ + 1]

\* the UPDATE of access_count and last_accessed, and the hit counter
Touch(c, id, t) ==
    [c EXCEPT
        !.rows = [i \in 1..Len(c.rows) |->
                    IF c.rows[i].id = id
                    THEN [c.rows[i] EXCEPT !.access_count = @ + 1, !.last_accessed = t]
                    ELSE c.rows[i]],
        !.cache_hits = @ + 1]

\* a comparison that also rejects a similarity equal to the threshold
BelowOrAtThreshold(similarity, threshold) == similarity <= threshold

\* a comparison turned around
AboveThreshold(similarity, threshold) == similarity > threshold

\* `if similarity < self.threshold`
BelowThreshold(similarity, threshold) == similarity < threshold

\* the lookup of get once the query is known not to be blank
Lookup(c, query, t) ==
    LET q == GenerateEmbedding(query) IN
    IF Len(c.index) = 0 THEN Miss(c)
    ELSE LET found == IndexSearch(c.index, q) IN
         IF BelowThreshold(found.similarity, c.threshold) THEN Miss(c)
         ELSE IF found.position \notin DOMAIN c.id_map THEN Miss(c)
         ELSE LET db_id == c.id_map[found.position] IN
              IF db_id \notin RowIds(c.rows) THEN Miss(c)
              ELSE [cache |-> Touch(c, db_id, t),
                    value |-> Some(RowById(c.rows, db_id).response_text)]

\* a get that runs the sweep before it looks at the query
SemanticCache_getSweepFirst(c, query, t) ==
    LET c1 == [c EXCEPT !.total_queries = @ + 1]
        c2 == IF c1.total_queries % SweepEvery = 0 THEN CleanExpired(c1, t) ELSE c1
    IN IF IsBlank(query) THEN Miss(c2) ELSE Lookup(c2, query, t)

\* a get that sweeps on every call with a non-blank query
SemanticCache_getSweepAlways(c, query, t) ==
    IF IsBlank(query) THEN Miss([c EXCEPT !.total_queries = @ + 1])
    ELSE Lookup(CleanExpired([c EXCEPT !.total_queries = @ + 1], t), query, t)

SemanticCache_get(c, query, t) ==
    LET c1 == [c EXCEPT !.total_queries = @ + 1] IN
    IF IsBlank(query) THEN Miss(c1)
    ELSE Lookup(IF c1.total_queries % SweepEvery = 0 THEN CleanExpired(c1, t) ELSE c1,
                query, t)

\* what get leaves the caller with when self._model.encode or
\* self._index.search raises: there is no try block in get, so the exception
\* leaves it
RaisedValue == [tag |-> "Raised", text |-> << >>]

\* the cache when the embedding of a non-blank query raises in get: the query
\* is counted and the sweep, if due, has run; no hit or miss is counted
GetRaised(c, t) ==
    IF (c.total_queries + 1) % SweepEvery = 0
    THEN CleanExpired([c EXCEPT !.total_queries = @ + 1], t)
    ELSE [c EXCEPT !.total_queries = @ + 1]

\* INSERT, then index.add and the _id_map entry for the last position
InsertRow(c, query, response, t) ==
    LET embedding == GenerateEmbedding(query)
        row == [id |-> c.next_id, query_text |-> query, response_text |-> response,
                embedding |-> embedding, timestamp |-> t, access_count |-> 0,
                last_accessed |-> t]
        ntotal == Len(c.index) + 1
    IN [c EXCEPT
            !.rows = Append(@, row),
            !.next_id = @ + 1,
            !.index = Append(@, embedding),
            !.id_map = [p \in (DOMAIN @) \cup {ntotal - 1} |->
                            IF p = ntotal - 1 THEN c.next_id ELSE @[p]]]

SemanticCache_set(c, query, response, t) ==
    IF IsBlank(query) \/ IsFalsy(response) THEN c
    ELSE InsertRow(EvictIfNeeded(c), query, response, t)

\* a clear that deletes the rows and leaves the index and the counters alone
SemanticCache_clearRows(c) == [c EXCEPT !.rows = << >>]

\* stats(): hit_rate is the quotient num / den
SemanticCache_stats(c) ==
    [total_queries |-> c.total_queries, cache_hits |-> c.cache_hits,
     cache_misses |-> c.cache_misses,
     hit_rate |-> IF c.total_queries > 0
                  THEN [num |-> c.cache_hits, den |-> c.total_queries]
                  ELSE [num |-> 0, den |-> 1]]

SemanticCache_clear(c) ==
    [InitFaissIndex([c EXCEPT !.rows = << >>]) EXCEPT
        !.total_queries = 0, !.cache_hits = 0, !.cache_misses = 0]

\* a constructor that starts with an empty index whatever the table holds
SemanticCache_reopenEmpty(c) ==
    [c EXCEPT !.index = << >>, !.id_map = << >>,
              !.total_queries = 0, !.cache_hits = 0, !.cache_misses = 0]

\* SemanticCache.__init__ with the arguments of c on the database file of c:
\* the table (and its AUTOINCREMENT counter) is the file's, the index is built
\* from it, the counters start at 0
SemanticCache_reopen(c) ==
    [InitFaissIndex(c) EXCEPT
        !.total_queries = 0, !.cache_hits = 0, !.cache_misses = 0]

\* SemanticCache.__init__ on a fresh database file
NewCache(threshold, ttl, max_size) ==
    [rows |-> << >>, next_id |-> 1, index |-> << >>, id_map |-> << >>,
     total_queries |-> 0, cache_hits |-> 0, cache_misses |-> 0,
     threshold |-> threshold, ttl |-> ttl, max_size |-> max_size]

(***************************************************************************)
(* get and set as the steps a second thread can come between: there is no  *)
(* lock in cache.py.  A step reads or writes self._index, self._id_map or  *)
(* the table once.                                                         *)
(***************************************************************************)
\* get up to the index search: the counter, the blank test, the sweep, the
\* empty-index test and search(k=1) on the index as it is now
GetSearch(c, query, t) ==
    LET c1 == [c EXCEPT !.total_queries = @ + 1] IN
    IF IsBlank(query)
    THEN [cache |-> Miss(c1).cache, done |-> TRUE, position |-> 0, similarity |-> 0]
    ELSE LET c2 == IF c1.total_queries % SweepEvery = 0 THEN CleanExpired(c1, t) ELSE c1 IN
         IF Len(c2.index) = 0
         THEN [cache |-> Miss(c2).cache, done |-> TRUE, position |-> 0, similarity |-> 0]
         ELSE [cache |-> c2, done |-> FALSE,
               position |-> IndexSearch(c2.index, GenerateEmbedding(query)).position,
               similarity |-> IndexSearch(c2.index, GenerateEmbedding(query)).similarity]

\* get from the threshold test on: the position found is looked up in the
\* _id_map and the table as they are now
GetResolve(c, position, similarity, t) ==
    IF BelowThreshold(similarity, c.threshold) THEN Miss(c)
    ELSE IF position \notin DOMAIN c.id_map THEN Miss(c)
    ELSE IF c.id_map[position] \notin RowIds(c.rows) THEN Miss(c)
    ELSE [cache |-> Touch(c, c.id_map[position], t),
          value |-> Some(RowById(c.rows, c.id_map[position]).response_text)]

\* set up to the commit of the INSERT, for a query and response that are not blank
SetInsert(c, query, response, t) ==
    LET c1 == EvictIfNeeded(c) IN
    [c1 EXCEPT
        !.rows = Append(@, [id |-> c1.next_id, query_text |-> query,
                            response_text |-> response,
                            embedding |-> GenerateEmbedding(query), timestamp |-> t,
                            access_count |-> 0, last_accessed |-> t]),
        !.next_id = @ + 1]

\* self._index.add(embedding_normalized)
SetAdd(c, query) == [c EXCEPT !.index = Append(@, GenerateEmbedding(query))]

\* self._id_map[self._index.ntotal - 1] = db_id
SetMap(c, db_id) ==
    [c EXCEPT !.id_map = [p \in (DOMAIN @) \cup {Len(c.index) - 1} |->
                            IF p = Len(c.index) - 1 THEN db_id ELSE @[p]]]

(***************************************************************************)
(* Errors and call records.                                                *)
(***************************************************************************)
Error(type, msg) == [type |-> type, msg |-> msg, parts |-> << >>]

NoError == Error("", "")

\* a call of a collaborator: its text arguments, an option, and what came back
Call(fn, arg, arg2, opt, ret, err) ==
    [fn |-> fn, arg |-> arg, arg2 |-> arg2, opt |-> opt, ret |-> ret, err |-> err]

CallsOf(trace, fn) == {i \in 1..Len(trace) : trace[i].fn = fn}

(***************************************************************************)
(* OllamaProvider (local.py).  The HTTP client's answers are inputs.       *)
(***************************************************************************)
GetOutcomes == {"200", "500", "RequestError", "OtherError"}

PostOutcomes ==
    {[kind |-> "ok", text |-> RX], [kind |-> "ok", text |-> EmptyText],
     [kind |-> "ok", text |-> SpaceText],
     [kind |-> "404", text |-> EmptyText], [kind |-> "RequestError", text |-> EmptyText],
     [kind |-> "Exception", text |-> EmptyText]}

\* is_available(): True only on status 200; httpx.RequestError is swallowed,
\* any other exception of the client leaves the method
OllamaProvider_is_available(get) ==
    CASE get = "200" -> [raised |-> FALSE, value |-> TRUE, error |-> NoError]
      [] get = "OtherError" ->
            [raised |-> TRUE, value |-> FALSE, error |-> Error("RuntimeError", "client")]
      [] OTHER -> [raised |-> FALSE, value |-> FALSE, error |-> NoError]

\* what the try block around the POST makes of the client's answer
PostResult(post) ==
    CASE post.kind = "ok" -> [raised |-> FALSE, text |-> post.text, error |-> NoError]
      [] post.kind = "404" ->
            [raised |-> TRUE, text |-> EmptyText, error |-> Error("OllamaError", "model not found")]
      [] post.kind = "RequestError" ->
            [raised |-> TRUE, text |-> EmptyText, error |-> Error("OllamaError", "failed to connect")]
      [] OTHER ->
            [raised |-> TRUE, text |-> EmptyText, error |-> Error("OllamaError", "unexpected error")]

OllamaProvider_chat(get, post) ==
    LET avail == OllamaProvider_is_available(get) IN
    IF avail.raised THEN [raised |-> TRUE, text |-> EmptyText, error |-> avail.error]
    ELSE IF ~avail.value
    THEN [raised |-> TRUE, text |-> EmptyText, error |-> Error("OllamaError", "not available")]
    ELSE PostResult(post)

(***************************************************************************)
(* FreeAPIManager (free_api.py).                                           *)
(***************************************************************************)
DaySeconds == 86400
MinuteSeconds == 60
GeminiRpm == 15
GeminiRpd == 1000
GroqRpm == 30

\* PROVIDERS: a missing limit (None) is the empty set
PROVIDERS ==
    [gemini |-> [limit_rpm |-> {GeminiRpm}, limit_rpd |-> {GeminiRpd}],
     groq |-> [limit_rpm |-> {GroqRpm}, limit_rpd |-> {}],
     deepseek |-> [limit_rpm |-> {}, limit_rpd |-> {}]]

ProviderNames == DOMAIN PROVIDERS

\* the priority order turned around
priority_order_reversed == <<"gemini", "groq", "deepseek">>

priority_order == <<"deepseek", "groq", "gemini">>

\* midnight UTC of the day of t
MidnightOf(t) == t - (t % DaySeconds)

InitUsage(t) ==
    [p \in ProviderNames |->
        [requests_today |-> 0, requests_this_minute |-> 0, last_request_time |-> 0,
         daily_reset_time |-> MidnightOf(t), minute_window_start |-> t]]

\* a daily counter reset 24 hours after the last request
ResetDailySliding(stats, t) ==
    IF t - stats.last_request_time >= DaySeconds
    THEN [stats EXCEPT !.requests_today = 0, !.daily_reset_time = MidnightOf(t)]
    ELSE stats

ResetDaily(stats, t) ==
    IF MidnightOf(t) > stats.daily_reset_time
    THEN [stats EXCEPT !.requests_today = 0, !.daily_reset_time = MidnightOf(t)]
    ELSE stats

\* a minute window that is only rolled over after more than 60 seconds
ResetMinuteLate(stats, t) ==
    IF t - stats.minute_window_start > MinuteSeconds
    THEN [stats EXCEPT !.requests_this_minute = 0, !.minute_window_start = t]
    ELSE stats

ResetMinute(stats, t) ==
    IF t - stats.minute_window_start >= MinuteSeconds
    THEN [stats EXCEPT !.requests_this_minute = 0, !.minute_window_start = t]
    ELSE stats

ResetIfNeeded(u, provider, t) ==
    [u EXCEPT ![provider] = ResetMinute(ResetDaily(@, t), t)]

\* a comparison that leaves the daily limit out
WithinLimitsMinuteOnly(stats, config) ==
    \A l \in config.limit_rpm : stats.requests_this_minute < l

\* a comparison that lets a counter at its limit pass
WithinLimitsLoose(stats, config) ==
    /\ \A l \in config.limit_rpd : stats.requests_today <= l
    /\ \A l \in config.limit_rpm : stats.requests_this_minute <= l

\* the comparison of _check_quota on the counters as they are
WithinLimits(stats, config) ==
    /\ \A l \in config.limit_rpd : stats.requests_today < l
    /\ \A l \in config.limit_rpm : stats.requests_this_minute < l

\* _check_quota: rolls the provider's windows over, then compares
CheckQuota(u, provider, t) ==
    LET u1 == ResetIfNeeded(u, provider, t)
    IN [usage |-> u1, value |-> WithinLimits(u1[provider], PROVIDERS[provider])]

\* a credential probe that finds a key for every provider
HasApiKeyAlways(ks, provider) == TRUE

HasApiKey(ks, provider) == provider \in ks

\* self.usage[provider] of a provider the loaded usage does not hold
KeyError == Error("KeyError", "usage")

\* get_available_provider from position i of the priority order
RECURSIVE AvailableFrom(_, _, _, _)
AvailableFrom(u, ks, t, i) ==
    IF i > Len(priority_order) THEN [usage |-> u, provider |-> "None"]
    ELSE IF ~HasApiKey(ks, priority_order[i]) THEN AvailableFrom(u, ks, t, i + 1)
    ELSE IF priority_order[i] \notin DOMAIN u THEN [usage |-> u, provider |-> "KeyError"]
    ELSE LET q == CheckQuota(u, priority_order[i], t) IN
         IF q.value THEN [usage |-> q.usage, provider |-> priority_order[i]]
         ELSE AvailableFrom(q.usage, ks, t, i + 1)

GetAvailableProvider(u, ks, t) == AvailableFrom(u, ks, t, 1)

\* a save that writes the counters of a fresh tracker
SaveUsageStale(u) == [state |-> "mapping", data |-> [p \in DOMAIN u |-> InitUsage(0)[p]]]

\* _save_usage: json.dump of {provider: asdict(stats)}
SaveUsage(u) == [state |-> "mapping", data |-> u]

\* the fields of UsageStats
UsageFields ==
    {"requests_today", "requests_this_minute", "last_request_time",
     "daily_reset_time", "minute_window_start"}

\* what the constructor's _load_usage makes of quotas.json at time t.  The file
\* is absent, text that is not JSON ("not_json"), bytes that are not text
\* ("not_text": reading raises UnicodeDecodeError, which is not caught), JSON
\* that is not an object ("not_mapping": data.items() raises AttributeError,
\* which is not caught either), or a JSON object
\* ("mapping"): UsageStats(**stats) raises TypeError, which is caught, unless
\* every entry has exactly the fields of UsageStats.
LoadUsage(file, t) ==
    CASE file.state = "absent" -> [raised |-> FALSE, usage |-> InitUsage(t), error |-> NoError]
      [] file.state = "not_json" -> [raised |-> FALSE, usage |-> InitUsage(t), error |-> NoError]
      [] file.state = "not_text" ->
            [raised |-> TRUE, usage |-> << >>, error |-> Error("UnicodeDecodeError", "read")]
      [] file.state = "not_mapping" ->
            [raised |-> TRUE, usage |-> << >>, error |-> Error("AttributeError", "items")]
      [] OTHER ->
            IF \A p \in DOMAIN file.data : DOMAIN file.data[p] = UsageFields
            THEN [raised |-> FALSE, usage |-> file.data, error |-> NoError]
            ELSE [raised |-> FALSE, usage |-> InitUsage(t), error |-> NoError]

\* _increment_usage: both counters, last_request_time, then the file
IncrementUsage(f, provider, t) ==
    LET u1 == [f.usage EXCEPT ![provider] =
                    [@ EXCEPT !.requests_today = @ + 1,
                              !.requests_this_minute = @ + 1,
                              !.last_request_time = t]]
    IN [f EXCEPT !.usage = u1, !.quota_file = SaveUsage(u1)]

CompletionOutcomes ==
    {[kind |-> "ok", text |-> RY], [kind |-> "error", text |-> EmptyText]}

FreeRaise(f, u, err) ==
    [usage |-> u, quota_file |-> f.quota_file, raised |-> TRUE, text |-> EmptyText,
     error |-> err, selected |-> "None"]

\* the completion call and what follows it
Complete(f, u, selected, t, completion) ==
    IF completion.kind = "ok"
    THEN LET g == IncrementUsage([f EXCEPT !.usage = u], selected, t)
         IN [usage |-> g.usage, quota_file |-> g.quota_file, raised |-> FALSE,
             text |-> completion.text, error |-> NoError, selected |-> selected]
    ELSE [FreeRaise(f, u, Error("Exception", "API call failed")) EXCEPT
             !.selected = selected]

\* f is [usage, quota_file]; ks the configured keys
FreeAPIManager_chat(f, ks, provider, t, completion) ==
    IF provider = "auto"
    THEN LET sel == GetAvailableProvider(f.usage, ks, t) IN
         IF sel.provider = "None"
         THEN FreeRaise(f, sel.usage, Error("QuotaExceededError", "all providers exceeded"))
         ELSE IF sel.provider = "KeyError" THEN FreeRaise(f, sel.usage, KeyError)
         ELSE Complete(f, sel.usage, sel.provider, t, completion)
    ELSE IF provider \notin ProviderNames
    THEN FreeRaise(f, f.usage, Error("ValueError", "unknown provider"))
    ELSE IF ~HasApiKey(ks, provider)
    THEN FreeRaise(f, f.usage, Error("ValueError", "no api key"))
    ELSE IF provider \notin DOMAIN f.usage THEN FreeRaise(f, f.usage, KeyError)
    ELSE LET q == CheckQuota(f.usage, provider, t) IN
         IF ~q.value
         THEN FreeRaise(f, q.usage, Error("QuotaExceededError", "provider exceeded"))
         ELSE Complete(f, q.usage, provider, t, completion)

(***************************************************************************)
(* SmartRouter (router.py).                                                *)
(***************************************************************************)
\* a validation that lets one more strategy through
valid_strategies_open == {"smart", "local", "free-api", "cache-only", "bogus"}

valid_strategies == {"smart", "local", "free-api", "cache-only"}

\* ', '.join(sorted(valid_strategies))
SortedStrategies == <<"cache-only", "free-api", "local", "smart">>

RouterResponse(response, source, cost, tokens_saved) ==
    [status |-> "returned", response |-> response, source |-> source, cost |-> cost,
     tokens_saved |-> tokens_saved, error |-> NoError]

Raised(err) ==
    [status |-> "raised", response |-> EmptyText, source |-> "", cost |-> 0,
     tokens_saved |-> 0, error |-> err]

\* what compressor.compress(prompt, rate) can do: a result with the token counts
\* the library reports (the second count is not bounded by the first), or raise
CompressOutcomes ==
    {[raised |-> FALSE, compressed_text |-> QZ, original_tokens |-> 2, compressed_tokens |-> 1],
     [raised |-> FALSE, compressed_text |-> QB, original_tokens |-> 1, compressed_tokens |-> 2],
     [raised |-> TRUE, compressed_text |-> EmptyText, original_tokens |-> 0, compressed_tokens |-> 0]}

\* an except branch that reports the whole prompt as saved
CompressFallbackAllSaved(prompt) ==
    [compressed_text |-> prompt, original_tokens |-> WordCount(prompt),
     compressed_tokens |-> 0]

\* the except branch of _compress_prompt
CompressFallback(prompt) ==
    [compressed_text |-> prompt, original_tokens |-> WordCount(prompt),
     compressed_tokens |-> WordCount(prompt)]

CompressPrompt(prompt, co) ==
    IF co.raised THEN CompressFallback(prompt)
    ELSE [compressed_text |-> co.compressed_text, original_tokens |-> co.original_tokens,
          compressed_tokens |-> co.compressed_tokens]

CompressCall(prompt, co) ==
    Call("compressor.compress", prompt, EmptyText, "",
         co.compressed_text, IF co.raised THEN Error("Exception", "compress") ELSE NoError)

\* the outcome of a route: the response or the error, the calls made, the rotator's state
Routed(resp, trace, f) ==
    [resp |-> resp, calls |-> trace, usage |-> f.usage, quota_file |-> f.quota_file]

\* the RouterResponse _route_local builds from what local.chat did
LocalRouted(r, f, prompt) ==
    Routed(IF r.raised THEN Raised(r.error) ELSE RouterResponse(r.text, "local", 0, 0),
           <<Call("local.chat", prompt, EmptyText, "", r.text, r.error)>>, f)

RouteLocal(f, prompt, env) ==
    LocalRouted(OllamaProvider_chat(env.lget, env.lpost), f, prompt)

\* the provider argument _route_free_api passes to free_api.chat
FreeProviderArg == "auto"

\* the RouterResponse _route_free_api builds from what free_api.chat did; r
\* carries the rotator's state after the call
FreeRouted(r, prompt) ==
    Routed(IF r.raised THEN Raised(r.error) ELSE RouterResponse(r.text, "free-api", 0, 0),
           <<Call("free_api.chat", prompt, EmptyText, FreeProviderArg, r.text, r.error)>>, r)

RouteFreeApi(f, ks, prompt, t, env) ==
    FreeRouted(FreeAPIManager_chat(f, ks, FreeProviderArg, t, env.completion), prompt)

\* `except OllamaError`
CaughtLocal(err) == err.type = "OllamaError"

\* a _smart_route that forgets the errors collected before the free-API attempt
AggregatePartsFreeOnly(errors, err) == <<[origin |-> "Free API", error |-> err]>>

\* the errors list once the free-API failure is appended to it
AggregateParts(errors, err) == Append(errors, [origin |-> "Free API", error |-> err])

\* a _smart_route that tries the local provider without asking it
ShouldTryLocalAlways(a) == TRUE

\* `if self.local.is_available()`
ShouldTryLocal(a) == a.value

\* what _smart_route makes of the free-API attempt r: its response, or the final raise
FreeAttempted(r, errors, trace) ==
    IF r.resp.status = "returned" THEN [r EXCEPT !.calls = trace \o @]
    ELSE [r EXCEPT
            !.calls = trace \o @,
            !.resp = Raised([type |-> "RoutingError", msg |-> "All providers failed",
                             parts |-> AggregateParts(errors, r.resp.error)])]

\* the second try block of _smart_route and the final raise
SmartFree(f, ks, prompt, t, env, errors, trace) ==
    FreeAttempted(RouteFreeApi(f, ks, prompt, t, env), errors, trace)

\* the record of the local.is_available() call of _smart_route
AvailabilityCall(a) ==
    <<Call("local.is_available", EmptyText, EmptyText,
           IF a.value THEN "True" ELSE "False", EmptyText, a.error)>>

\* what _smart_route makes of the local attempt r
LocalAttempted(r, f, ks, prompt, t, env, probe) ==
    IF r.resp.status = "returned" THEN [r EXCEPT !.calls = probe \o @]
    ELSE IF CaughtLocal(r.resp.error)
    THEN SmartFree(f, ks, prompt, t, env,
                   <<[origin |-> "Local LLM", error |-> r.resp.error]>>,
                   probe \o r.calls)
    ELSE [r EXCEPT !.calls = probe \o @]

\* _smart_route once local.is_available() has answered a
SmartRouteFrom(a, f, ks, prompt, t, env) ==
    IF a.raised THEN Routed(Raised(a.error), AvailabilityCall(a), f)
    ELSE IF ShouldTryLocal(a)
    THEN LocalAttempted(RouteLocal(f, prompt, env), f, ks, prompt, t, env,
                        AvailabilityCall(a))
    ELSE SmartFree(f, ks, prompt, t, env, << >>, AvailabilityCall(a))

SmartRoute(f, ks, prompt, t, env) ==
    SmartRouteFrom(OllamaProvider_is_available(env.avail), f, ks, prompt, t, env)

\* a chat that sends every strategy through the smart route
DispatchSmartOnly(f, ks, strategy, prompt, t, env) == SmartRoute(f, ks, prompt, t, env)

\* step 3 of chat: the route the strategy selects
Dispatch(f, ks, strategy, prompt, t, env) ==
    CASE strategy = "local" -> RouteLocal(f, prompt, env)
      [] strategy = "free-api" -> RouteFreeApi(f, ks, prompt, t, env)
      [] OTHER -> SmartRoute(f, ks, prompt, t, env)

\* a chat that stores the response under the compressed prompt
CacheKeyCompressed(prompt, compressed_prompt) == compressed_prompt

\* the query chat stores the response under
CacheKey(prompt, compressed_prompt) == prompt

\* a chat that routes the original prompt
DispatchOriginal(prompt, compressed_prompt) == prompt

\* the text chat hands to the route
DispatchText(prompt, compressed_prompt) == compressed_prompt

ChatOutcome(c, f, resp, trace) ==
    [cache |-> c, usage |-> f.usage, quota_file |-> f.quota_file,
     result |-> resp, calls |-> trace]

\* a step 4 that runs in a finally clause: a failed route is stored too,
\* under the text of its error
StoreAndReturnAlways(c, prompt, cr, r, trace, t) ==
    ChatOutcome(SemanticCache_set(c, prompt, RX, t), r,
                IF r.resp.status = "raised" THEN r.resp
                ELSE RouterResponse(r.resp.response, r.resp.source, r.resp.cost,
                                    cr.original_tokens - cr.compressed_tokens),
                Append(trace \o r.calls,
                       Call("cache.set", prompt, RX, "", EmptyText, NoError)))

\* steps 4 and 5 of chat: cr is the compression result, r the outcome of the route
StoreAndReturn(c, prompt, cr, r, trace, t) ==
    IF r.resp.status = "raised" THEN ChatOutcome(c, r, r.resp, trace \o r.calls)
    ELSE ChatOutcome(
            SemanticCache_set(c, CacheKey(prompt, cr.compressed_text), r.resp.response, t),
            r,
            RouterResponse(r.resp.response, r.resp.source, r.resp.cost,
                           cr.original_tokens - cr.compressed_tokens),
            Append(trace \o r.calls,
                   Call("cache.set", CacheKey(prompt, cr.compressed_text),
                        r.resp.response, "", EmptyText, NoError)))

\* steps 2 and 3 of chat once the prompt is compressed to cr
RouteCompressed(c, f, ks, prompt, strategy, t, env, trace, cr) ==
    StoreAndReturn(c, prompt, cr,
                   Dispatch(f, ks, strategy, DispatchText(prompt, cr.compressed_text), t, env),
                   Append(trace, CompressCall(prompt, env.compress)), t)

\* steps 2 to 5 of chat, after a cache miss
AfterMiss(c, f, ks, prompt, strategy, t, env, trace) ==
    RouteCompressed(c, f, ks, prompt, strategy, t, env, trace,
                    CompressPrompt(prompt, env.compress))

\* the return on a cache hit
HitResponse(cached) == RouterResponse(cached, "cache", 0, 0)

\* a chat that never takes the early return
IsHitNever(value) == FALSE

\* `if cached_response is not None`
IsHit(value) == value # None

\* a chat without the cache-only check
CacheOnlyIgnored(strategy) == FALSE

\* the cache-only check after a miss
CacheOnlyMiss(strategy) == strategy = "cache-only"

\* the record of the cache probe of chat
ProbeCall(prompt, g) ==
    <<Call("cache.get", prompt, EmptyText, g.value.tag, g.value.text, NoError)>>

\* step 1 of chat once cache.get has answered g, and what follows it
AfterProbe(g, f, ks, prompt, strategy, t, env) ==
    IF IsHit(g.value)
    THEN ChatOutcome(g.cache, f, HitResponse(g.value.text), ProbeCall(prompt, g))
    ELSE IF CacheOnlyMiss(strategy)
    THEN ChatOutcome(g.cache, f, Raised(Error("RoutingError", "Cache miss")),
                     ProbeCall(prompt, g))
    ELSE AfterMiss(g.cache, f, ks, prompt, strategy, t, env, ProbeCall(prompt, g))

\* c is the cache, f is [usage, quota_file], ks the configured keys, env the
\* answers of the collaborators this call consults
SmartRouter_chat(c, f, ks, prompt, strategy, t, env) ==
    IF IsBlank(prompt)
    THEN ChatOutcome(c, f, Raised(Error("ValueError", "Prompt cannot be empty")), << >>)
    ELSE IF strategy \notin valid_strategies
    THEN ChatOutcome(c, f,
            Raised([type |-> "ValueError", msg |-> "Invalid strategy",
                    parts |-> SortedStrategies]), << >>)
    ELSE AfterProbe(SemanticCache_get(c, prompt, t), f, ks, prompt, strategy, t, env)

(***************************************************************************)
(* The state machine.                                                      *)
(***************************************************************************)
Queries == {EmptyText, SpaceText, QA, QC}
Responses == {EmptyText, RX, RY}
Prompts == {SpaceText, QA, QC}
Strategies == valid_strategies \cup {"bogus"}
KeySets == {{}, {"groq", "gemini"}}
TickSteps == {1}

\* the query counter at the start: a new cache, or one that has answered
\* SweepEvery - 2 lookups of a still empty table
StartCounts == {0, SweepEvery - 2}

\* the threads that call the cache, and a thread that is in no call
Threads == {1, 2}

NoCall ==
    [pc |-> "idle", query |-> EmptyText, response |-> EmptyText, position |-> 0,
     similarity |-> 0, db_id |-> 0, value |-> None]

NoThreads == [t \in Threads |-> NoCall]

Op(op, prompt, strategy) ==
    [op |-> op, prompt |-> prompt, strategy |-> strategy, response |-> EmptyText]

\* no call is in progress or waiting to be looked at
Idle == Op("idle", EmptyText, "")

InQueryWindow(n) == \E s \in StartCounts : s <= n /\ n < s + MaxQueries

InitWith(thresholds, ttls, sizes, starts, keySets) ==
    /\ \E th \in thresholds, ttl \in ttls, size \in sizes, s \in starts :
            cache = [NewCache(th, ttl, size) EXCEPT !.total_queries = s, !.cache_misses = s]
    /\ now = 0
    /\ usage = InitUsage(0)
    /\ quota_file = [state |-> "absent", data |-> << >>]
    /\ keys \in keySets
    /\ lastOp = Idle
    /\ result = None
    /\ calls = << >>
    /\ threads = NoThreads

\* time passes between calls
Tick ==
    /\ lastOp = Idle
    /\ now < MaxTime
    /\ \E d \in TickSteps : now' = now + d
    /\ UNCHANGED <<cache, usage, quota_file, keys, lastOp, result, calls, threads>>

\* the caller has looked at what the last call returned and at the calls it made
Return ==
    /\ lastOp # Idle
    /\ lastOp' = Idle
    /\ result' = None
    /\ calls' = << >>
    /\ UNCHANGED <<cache, usage, quota_file, keys, now, threads>>

\* a call of get with a query of qs
GetOf(qs) ==
    /\ lastOp = Idle
    /\ InQueryWindow(cache.total_queries)
    /\ \E q \in qs :
        \E g \in {SemanticCache_get(cache, q, now)} :
        /\ cache' = g.cache
        /\ lastOp' = Op("get", q, "")
        /\ result' = g.value
    /\ calls' = << >>
    /\ UNCHANGED <<usage, quota_file, keys, now, threads>>

GetStep == GetOf(Queries)

\* a get during which the embedding library raises
GetFailStep ==
    /\ lastOp = Idle
    /\ InQueryWindow(cache.total_queries)
    /\ \E q \in {x \in Queries : ~IsBlank(x)} :
        /\ cache' = GetRaised(cache, now)
        /\ lastOp' = Op("get", q, "")
    /\ result' = RaisedValue
    /\ calls' = << >>
    /\ UNCHANGED <<usage, quota_file, keys, now, threads>>

\* the rows inserted since the initial state
InsertsSoFar(c) ==
    IF c.max_size = EvictSize THEN c.next_id - 1 - EvictSize ELSE c.next_id - 1

\* a call of set with a query of qs and a response of rs
SetOf(qs, rs) ==
    /\ lastOp = Idle
    /\ InsertsSoFar(cache) < MaxRowId
    /\ \E q \in qs, r \in rs :
        /\ cache' = SemanticCache_set(cache, q, r, now)
        /\ lastOp' = [Op("set", q, "") EXCEPT !.response = r]
    /\ result' = None
    /\ calls' = << >>
    /\ UNCHANGED <<usage, quota_file, keys, now, threads>>

SetStep == SetOf(Queries, Responses)

ClearStep ==
    /\ lastOp = Idle
    /\ cache' = SemanticCache_clear(cache)
    /\ lastOp' = Op("clear", EmptyText, "")
    /\ result' = None
    /\ calls' = << >>
    /\ UNCHANGED <<usage, quota_file, keys, now, threads>>

\* the answers a chat call does not consult are fixed, so that each call is
\* explored once for every combination of the answers it does consult
DefaultCompress ==
    CHOOSE co \in CompressOutcomes : ~co.raised /\ co.compressed_text = QZ
DefaultPost == CHOOSE po \in PostOutcomes : po.kind = "ok" /\ po.text = RX
DefaultCompletion == CHOOSE cm \in CompletionOutcomes : cm.kind = "ok"

ReachesDispatch(prompt, strategy) ==
    /\ ~IsBlank(prompt)
    /\ strategy \in valid_strategies \ {"cache-only"}
    /\ SemanticCache_get(cache, prompt, now).value = None

ConsultsLocal(strategy, av) ==
    strategy = "local" \/ (strategy = "smart" /\ av = "200")

ConsultsFree(strategy, av, lg, lp) ==
    \/ strategy = "free-api"
    \/ /\ strategy = "smart"
       /\ av # "OtherError"
       /\ av = "200" => (LET r == OllamaProvider_chat(lg, lp)
                         IN r.raised /\ CaughtLocal(r.error))

\* every combination of the answers a chat with this strategy consults; d tells
\* whether the chat reaches the dispatch
EnvsWhen(d, strategy) ==
    UNION {UNION {UNION {UNION {
        {[compress |-> co, avail |-> av, lget |-> lg, lpost |-> lp, completion |-> cm] :
            cm \in (IF d /\ ConsultsFree(strategy, av, lg, lp)
                    THEN CompletionOutcomes ELSE {DefaultCompletion})} :
            lp \in (IF d /\ ConsultsLocal(strategy, av) /\ lg = "200"
                    THEN PostOutcomes ELSE {DefaultPost})} :
            lg \in (IF d /\ ConsultsLocal(strategy, av) THEN GetOutcomes ELSE {"200"})} :
            av \in (IF d /\ strategy = "smart" THEN GetOutcomes ELSE {"200"})} :
            co \in (IF d THEN CompressOutcomes ELSE {DefaultCompress})}

\* every combination of the answers chat(prompt, strategy) consults in this state
ConsultedEnvs(prompt, strategy) == EnvsWhen(ReachesDispatch(prompt, strategy), strategy)

ChatStep ==
    /\ lastOp = Idle
    /\ InQueryWindow(cache.total_queries)
    /\ cache.next_id <= MaxRowId
    /\ \E prompt \in Prompts, strategy \in Strategies :
       \E env \in ConsultedEnvs(prompt, strategy) :
       \E o \in {SmartRouter_chat(cache, [usage |-> usage, quota_file |-> quota_file],
                                 keys, prompt, strategy, now, env)} :
          /\ cache' = o.cache
          /\ usage' = o.usage
          /\ quota_file' = o.quota_file
          /\ result' = o.result
          /\ calls' = o.calls
          /\ lastOp' = Op("chat", prompt, strategy)
    /\ UNCHANGED <<keys, now, threads>>

(***************************************************************************)
(* Specifications: the cache driven directly, and the router on top.       *)
(***************************************************************************)
\* the threshold is the similarity of QA and QC, so that a neighbour can meet it exactly
InitCache ==
    InitWith({InnerProduct(GenerateEmbedding(QA), GenerateEmbedding(QC))},
             {1}, {2}, {SweepEvery - 2}, {{}})

NextCache == GetStep \/ SetStep \/ ClearStep \/ Tick \/ Return

SpecCache == InitCache /\ [][NextCache]_vars

\* a cache after n calls of set at time 0, the queries alternating
RECURSIVE Filled(_, _)
Filled(c, n) ==
    IF n = 0 THEN c
    ELSE SemanticCache_set(Filled(c, n - 1), IF n % 2 = 1 THEN QA ELSE QC, RX, 0)

\* a store of EvictSize entries that is full, so that an eviction deletes
\* count // 10 entries
InitEvict ==
    /\ cache = Filled(NewCache(InnerProduct(GenerateEmbedding(QA), GenerateEmbedding(QC)),
                               1, EvictSize), EvictSize)
    /\ now = 0
    /\ usage = InitUsage(0)
    /\ quota_file = [state |-> "absent", data |-> << >>]
    /\ keys = {}
    /\ lastOp = Idle
    /\ result = None
    /\ calls = << >>
    /\ threads = NoThreads

\* the calls on the full store: get of a stored query, set of one more entry
EvictGetStep == GetOf({QA, QC})

EvictSetStep == SetOf({QA}, {RY})

NextEvict == EvictGetStep \/ EvictSetStep \/ Tick \/ Return

SpecEvict == InitEvict /\ [][NextEvict]_vars

\* the cache with an embedding library that can fail
NextCacheFaults == NextCache \/ GetFailStep

SpecCacheFaults == InitCache /\ [][NextCacheFaults]_vars

Init == InitWith({DEFAULT_THRESHOLD}, {1}, {2}, {SweepEvery - 2}, KeySets)

Next == ChatStep \/ Tick \/ Return

Spec == Init /\ [][Next]_vars

(***************************************************************************)
(* The quota tracker driven on its own: chat of FreeAPIManager with a      *)
(* named provider or "auto", get_available_provider, a new tracker opened  *)
(* on the same directory, and time passing across the minute window.       *)
(***************************************************************************)
QuotaProviders == ProviderNames \cup {"auto", "bogus"}
QuotaKeySets == {{}, {"gemini"}, {"groq", "gemini"}, {"deepseek", "groq", "gemini"}}
QuotaTickSteps == {MinuteSeconds - 1, MinuteSeconds}

\* the requests a provider has served today when the run starts: none, or one
\* short of a limit of the table
StartCalls == {0, GeminiRpm - 1, GroqRpm - 1, GeminiRpd - 1}

InCallWindow(n) == \E s \in StartCalls : s <= n /\ n < s + MaxCalls

\* the tracker of provider p after n uses at time 0, m of them in this minute
UsedBefore(p, n, m) ==
    [InitUsage(0) EXCEPT ![p] = [@ EXCEPT !.requests_today = n,
                                          !.requests_this_minute = m]]

StartUsages ==
    {InitUsage(0),
     UsedBefore("gemini", GeminiRpm - 1, GeminiRpm - 1),
     UsedBefore("groq", GroqRpm - 1, GroqRpm - 1),
     UsedBefore("gemini", GeminiRpd - 1, 0)}

InitQuota ==
    /\ cache = NewCache(DEFAULT_THRESHOLD, 1, 2)
    /\ now = 0
    /\ usage \in StartUsages
    /\ quota_file = IF usage = InitUsage(0) THEN [state |-> "absent", data |-> << >>]
                    ELSE SaveUsage(usage)
    /\ keys \in QuotaKeySets
    /\ lastOp = Idle
    /\ result = None
    /\ calls = << >>
    /\ threads = NoThreads

QuotaTick ==
    /\ lastOp = Idle
    /\ \E d \in QuotaTickSteps : now + d <= QuotaMaxTime /\ now' = now + d
    /\ UNCHANGED <<cache, usage, quota_file, keys, lastOp, result, calls, threads>>

\* the completion call of a chat that reached it
CompletionCalls(o) ==
    IF o.selected = "None" THEN << >>
    ELSE <<Call("completion", QA, EmptyText, o.selected, o.text, o.error)>>

\* FreeAPIManager.chat(prompt, provider)
FreeChatStep ==
    /\ lastOp = Idle
    /\ \A p \in DOMAIN usage : InCallWindow(usage[p].requests_today)
    /\ \E provider \in QuotaProviders, completion \in CompletionOutcomes :
        \E o \in {FreeAPIManager_chat([usage |-> usage, quota_file |-> quota_file],
                                      keys, provider, now, completion)} :
        /\ usage' = o.usage
        /\ quota_file' = o.quota_file
        /\ lastOp' = Op("free_chat", QA, provider)
        /\ result' = IF o.raised THEN Raised(o.error)
                     ELSE RouterResponse(o.text, o.selected, 0, 0)
        /\ calls' = CompletionCalls(o)
    /\ UNCHANGED <<cache, keys, now, threads>>

\* FreeAPIManager.get_available_provider()
SelectStep ==
    /\ lastOp = Idle
    /\ \E sel \in {GetAvailableProvider(usage, keys, now)} :
        /\ usage' = sel.usage
        /\ result' = IF sel.provider = "KeyError" THEN Raised(KeyError)
                     ELSE RouterResponse(EmptyText, sel.provider, 0, 0)
    /\ lastOp' = Op("select", EmptyText, "")
    /\ calls' = << >>
    /\ UNCHANGED <<cache, quota_file, keys, now, threads>>

\* FreeAPIManager(cache_dir) on the directory of the running tracker; when the
\* constructor raises there is no new tracker
RestartStep ==
    /\ lastOp = Idle
    /\ \E l \in {LoadUsage(quota_file, now)} :
        /\ usage' = IF l.raised THEN usage ELSE l.usage
        /\ result' = IF l.raised THEN Raised(l.error)
                     ELSE RouterResponse(EmptyText, "", 0, 0)
    /\ lastOp' = Op("restart", EmptyText, "")
    /\ calls' = << >>
    /\ UNCHANGED <<cache, quota_file, keys, now, threads>>

NextQuota == FreeChatStep \/ SelectStep \/ RestartStep \/ QuotaTick \/ Return

SpecQuota == InitQuota /\ [][NextQuota]_vars

\* what quotas.json can hold when something else has written it: no JSON, no
\* text, a JSON list, an object whose entry lacks fields, an object without groq and
\* deepseek
DamagedFiles ==
    {[state |-> "not_json", data |-> << >>],
     [state |-> "not_text", data |-> << >>],
     [state |-> "not_mapping", data |-> << >>],
     [state |-> "mapping", data |-> [p \in ProviderNames |-> [requests_today |-> 0]]],
     [state |-> "mapping", data |-> [p \in {"gemini"} |-> InitUsage(0)[p]]]}

\* a tracker is opened on a directory whose quotas.json was overwritten from
\* outside while no tracker was running; when the constructor raises there is
\* no new tracker
DamageStep ==
    /\ lastOp = Idle
    /\ \E file \in DamagedFiles \ {quota_file} :
        \E l \in {LoadUsage(file, now)} :
        /\ quota_file' = file
        /\ usage' = IF l.raised THEN usage ELSE l.usage
        /\ result' = IF l.raised THEN Raised(l.error)
                     ELSE RouterResponse(EmptyText, "", 0, 0)
    /\ lastOp' = Op("restart", EmptyText, "")
    /\ calls' = << >>
    /\ UNCHANGED <<cache, keys, now, threads>>

NextQuotaFaults == NextQuota \/ DamageStep

\* the tracker driven across midnight UTC: time passes to the last second of
\* the day of the start, or to the midnight that ends it
DailyInstants == {DaySeconds - 1, DaySeconds}

DailyTick ==
    /\ lastOp = Idle
    /\ \E t \in DailyInstants : t > now /\ now' = t
    /\ UNCHANGED <<cache, usage, quota_file, keys, lastOp, result, calls, threads>>

NextDaily == FreeChatStep \/ SelectStep \/ DailyTick \/ Return

SpecDaily == InitQuota /\ [][NextDaily]_vars

(***************************************************************************)
(* Two threads on one SemanticCache.                                       *)
(***************************************************************************)
\* the entries the threads store
ThreadEntries == {[query |-> QA, response |-> RX], [query |-> QC, response |-> RY]}

InitThreads == InitWith({DEFAULT_THRESHOLD}, {1}, {2}, {0}, {{}})

\* a thread enters get and searches the index
GetBeginStep ==
    /\ InQueryWindow(cache.total_queries)
    /\ \E t \in Threads, e \in ThreadEntries :
        /\ threads[t].pc = "idle"
        /\ \E g \in {GetSearch(cache, e.query, now)} :
            /\ cache' = g.cache
            /\ threads' = [threads EXCEPT ![t] =
                    [NoCall EXCEPT !.pc = IF g.done THEN "done" ELSE "get_found",
                                   !.query = e.query,
                                   !.position = g.position,
                                   !.similarity = g.similarity]]
    /\ UNCHANGED <<usage, quota_file, keys, now, lastOp, result, calls>>

\* the thread resolves the position it found and leaves get
GetFinishStep ==
    /\ \E t \in Threads :
        /\ threads[t].pc = "get_found"
        /\ \E g \in {GetResolve(cache, threads[t].position, threads[t].similarity, now)} :
            /\ cache' = g.cache
            /\ threads' = [threads EXCEPT ![t] = [@ EXCEPT !.pc = "done", !.value = g.value]]
    /\ UNCHANGED <<usage, quota_file, keys, now, lastOp, result, calls>>

\* the caller has the result of the call
ThreadReturn ==
    /\ \E t \in Threads :
        /\ threads[t].pc = "done"
        /\ threads' = [threads EXCEPT ![t] = NoCall]
    /\ UNCHANGED <<cache, usage, quota_file, keys, now, lastOp, result, calls>>

\* a whole set on a thread that is in no call
SetCallStep ==
    /\ InsertsSoFar(cache) < MaxRowId
    /\ \E t \in Threads, e \in ThreadEntries :
        /\ threads[t].pc = "idle"
        /\ cache' = SemanticCache_set(cache, e.query, e.response, now)
    /\ UNCHANGED <<usage, quota_file, keys, now, lastOp, result, calls, threads>>

\* a whole clear on a thread that is in no call
ClearCallStep ==
    /\ \E t \in Threads : threads[t].pc = "idle"
    /\ cache.rows # << >>
    /\ cache' = SemanticCache_clear(cache)
    /\ UNCHANGED <<usage, quota_file, keys, now, lastOp, result, calls, threads>>

NextGetRace ==
    GetBeginStep \/ GetFinishStep \/ SetCallStep \/ ClearCallStep \/ ThreadReturn

SpecGetRace == InitThreads /\ [][NextGetRace]_vars

\* a thread enters set, evicts if needed and inserts its row
SetBeginStep ==
    /\ InsertsSoFar(cache) < MaxRowId
    /\ \E t \in Threads, e \in ThreadEntries :
        /\ threads[t].pc = "idle"
        /\ cache' = SetInsert(cache, e.query, e.response, now)
        /\ threads' = [threads EXCEPT ![t] =
                [NoCall EXCEPT !.pc = "set_inserted", !.query = e.query,
                               !.response = e.response, !.db_id = cache'.next_id - 1]]
    /\ UNCHANGED <<usage, quota_file, keys, now, lastOp, result, calls>>

\* the thread adds its vector to the index
SetAddStep ==
    /\ \E t \in Threads :
        /\ threads[t].pc = "set_inserted"
        /\ cache' = SetAdd(cache, threads[t].query)
        /\ threads' = [threads EXCEPT ![t] = [@ EXCEPT !.pc = "set_added"]]
    /\ UNCHANGED <<usage, quota_file, keys, now, lastOp, result, calls>>

\* the thread maps the last position of the index to its row and leaves set
SetMapStep ==
    /\ \E t \in Threads :
        /\ threads[t].pc = "set_added"
        /\ cache' = SetMap(cache, threads[t].db_id)
        /\ threads' = [threads EXCEPT ![t] = [@ EXCEPT !.pc = "done"]]
    /\ UNCHANGED <<usage, quota_file, keys, now, lastOp, result, calls>>

NextSetRace == SetBeginStep \/ SetAddStep \/ SetMapStep \/ ThreadReturn

SpecSetRace == InitThreads /\ [][NextSetRace]_vars

SpecQuotaFaults == InitQuota /\ [][NextQuotaFaults]_vars

\* the cache driven with responses that are blank
BlankSetStep == SetOf({QA, SpaceText}, {EmptyText, SpaceText})

NextCacheBlank == NextCache \/ BlankSetStep

\* a new SemanticCache on the same database file replaces the one that was
\* running from the start
ReopenStep ==
    /\ lastOp = Idle
    /\ cache.total_queries >= SweepEvery - 2
    /\ cache' = SemanticCache_reopen(cache)
    /\ lastOp' = Op("reopen", EmptyText, "")
    /\ result' = None
    /\ calls' = << >>
    /\ UNCHANGED <<usage, quota_file, keys, now, threads>>

ReopenGetStep == GetOf({QA, QC})

ReopenSetStep == SetOf({QA, QC}, {RX})

NextCacheReopen ==
    ReopenGetStep \/ ReopenSetStep \/ ClearStep \/ ReopenStep \/ Tick \/ Return

SpecCacheBlank == InitCache /\ [][NextCacheBlank]_vars

SpecCacheReopen == InitCache /\ [][NextCacheReopen]_vars

\* the cache driven with one query and the blank one, around the 100th get
SweepGetStep == GetOf({SpaceText, QA, QC})

SweepSetStep == SetOf({QA, QC}, {RX})

NextSweep == SweepGetStep \/ SweepSetStep \/ Tick \/ Return

SpecSweep == InitCache /\ [][NextSweep]_vars

(***************************************************************************)
(* Properties.  After a step that performed a call, lastOp, result and     *)
(* calls describe that call; in a chat that passed validation calls[1] is  *)
(* the cache probe and, after a miss with a fallback strategy, calls[2] is *)
(* the compressor call.                                                    *)
(***************************************************************************)
Called(fn) == CallsOf(calls, fn) # {}

ProviderCalls == CallsOf(calls, "local.chat") \cup CallsOf(calls, "free_api.chat")

ChatHit == lastOp.op = "chat" /\ Len(calls) >= 1 /\ calls[1].opt = "Some"

ChatMiss == lastOp.op = "chat" /\ Len(calls) >= 1 /\ calls[1].opt = "None"

SmartMiss == ChatMiss /\ lastOp.strategy = "smart"

\* C1: after set(q, r) with q and r not blank, get(q) returns r, whatever the
\* cache held before.
C1_ExactMatchAfterSet ==
    (lastOp.op = "set" /\ ~IsBlank(lastOp.prompt) /\ ~IsBlank(lastOp.response))
        => SemanticCache_get(cache, lastOp.prompt, now).value = Some(lastOp.response)

AnsweredByLocal ==
    lastOp.op = "chat" /\ result.status = "returned" /\ result.source = "local"

\* the chat of the same prompt that follows at once, under every strategy and
\* whatever the collaborators it consults answer, returns r from the cache
RepeatHits(r) ==
    \A strategy \in valid_strategies :
    \A env \in ConsultedEnvs(lastOp.prompt, strategy) :
        LET o == SmartRouter_chat(cache, [usage |-> usage, quota_file |-> quota_file],
                                  keys, lastOp.prompt, strategy, now, env)
        IN /\ o.result.status = "returned"
           /\ o.result.response = r
           /\ o.result.source = "cache"
           /\ CallsOf(o.calls, "local.chat") = {}
           /\ CallsOf(o.calls, "free_api.chat") = {}

\* C2 as stated: after a chat(p) that missed and was answered by the local
\* provider with any text r, the chat(p) that follows at once returns r from
\* the cache and calls no provider.
C2_RoundTripAnyResponse == AnsweredByLocal => RepeatHits(result.response)

\* C2, amended: the same for every r that is not the empty text.
C2_RoundTrip ==
    (AnsweredByLocal /\ result.response # EmptyText) => RepeatHits(result.response)

C2_Witness ==
    /\ AnsweredByLocal
    /\ result.response # EmptyText
    /\ calls[2].err = NoError
    /\ calls[2].ret # lastOp.prompt
    /\ Len(cache.rows) = 2

\* C3: when the cache probe of chat returns a response, chat returns it with
\* source cache, cost 0 and tokens_saved 0, and the probe is the only call made.
C3_HitShortCircuit ==
    ChatHit => /\ result = RouterResponse(calls[1].ret, "cache", 0, 0)
               /\ Len(calls) = 1

C3_Witness == ChatHit /\ lastOp.strategy = "local" /\ result.source = "cache"

\* C4: in a smart chat that missed, a local provider that reports itself
\* unavailable is never sent the prompt and the rotator is; one that reports
\* itself available is sent the prompt next, and the rotator is not called when
\* that call succeeds.
C4_SmartOrder ==
    SmartMiss =>
        /\ Called("local.is_available")
        /\ \A i \in CallsOf(calls, "local.is_available") :
            /\ (calls[i].opt = "False" /\ calls[i].err = NoError)
                    => ~Called("local.chat") /\ Called("free_api.chat")
            /\ calls[i].opt = "True"
                    => /\ Len(calls) > i
                       /\ calls[i + 1].fn = "local.chat"
                       /\ \A j \in 1..i : calls[j].fn # "free_api.chat"
                       /\ calls[i + 1].err = NoError => ~Called("free_api.chat")

C4_Witness ==
    /\ SmartMiss
    /\ \E i \in CallsOf(calls, "local.is_available") :
            calls[i].opt = "False" /\ calls[i].err = NoError
    /\ result.status = "returned"
    /\ result.source = "free-api"

\* C5: in a smart chat, whatever failure the local call ends with, the rotator
\* is called next, the local failure does not reach the caller, and a rotator
\* success is returned with source free-api.
C5_AnyLocalFailureFallsThrough ==
    SmartMiss =>
        \A i \in CallsOf(calls, "local.chat") :
            calls[i].err # NoError =>
                /\ Called("free_api.chat")
                /\ ~(result.status = "raised" /\ result.error = calls[i].err)
                /\ \A j \in CallsOf(calls, "free_api.chat") :
                        calls[j].err = NoError =>
                            /\ result.status = "returned"
                            /\ result.response = calls[j].ret
                            /\ result.source = "free-api"

FreeFailedInSmart ==
    SmartMiss /\ \E j \in CallsOf(calls, "free_api.chat") : calls[j].err # NoError

IsAggregate(res) ==
    /\ res.status = "raised"
    /\ res.error.type = "RoutingError"
    /\ res.error.msg = "All providers failed"

\* the failure of the call of fn, if there was one, as a part of the aggregate
PartsOf(fn, origin) ==
    IF Called(fn)
    THEN <<[origin |-> origin, error |-> calls[CHOOSE k \in CallsOf(calls, fn) : TRUE].err]>>
    ELSE << >>

\* C6 as stated: when the rotator fails in a smart chat, the aggregate error
\* carries a local-side failure and the rotator's failure.
C6_AggregateCarriesBoth ==
    FreeFailedInSmart =>
        /\ IsAggregate(result)
        /\ \E k \in 1..Len(result.error.parts) : result.error.parts[k].origin = "Local LLM"
        /\ \E k \in 1..Len(result.error.parts) : result.error.parts[k].origin = "Free API"

\* C6, amended: when the rotator fails in a smart chat, chat fails with the
\* aggregate error; it carries the rotator's failure, preceded by the local
\* failure exactly when local.chat was called, and nothing else.
C6_Aggregate ==
    FreeFailedInSmart =>
        /\ IsAggregate(result)
        /\ result.error.parts = PartsOf("local.chat", "Local LLM") \o PartsOf("free_api.chat", "Free API")

C6_Witness ==
    /\ FreeFailedInSmart
    /\ Called("local.chat")
    /\ Len(result.error.parts) = 2

\* C7: a cache-only chat that misses fails with the cache-miss error, and the
\* probe is the only call it makes: no compressor, no provider, no cache.set.
C7_CacheOnlyMiss ==
    (ChatMiss /\ lastOp.strategy = "cache-only")
        => /\ result = Raised(Error("RoutingError", "Cache miss"))
           /\ Len(calls) = 1

C7_Witness ==
    ChatMiss /\ lastOp.strategy = "cache-only" /\ result.status = "raised"
        /\ Len(cache.rows) > 0

\* C8: strategy local never calls the rotator and hands a failure of local.chat
\* to the caller as it is; strategy free-api never calls local.chat, calls the
\* rotator with provider auto, and hands its failure to the caller as it is.
C8_ForcedNoFallback ==
    /\ (ChatMiss /\ lastOp.strategy = "local") =>
            /\ ~Called("free_api.chat")
            /\ Called("local.chat")
            /\ \A i \in CallsOf(calls, "local.chat") :
                    calls[i].err # NoError => result = Raised(calls[i].err)
    /\ (ChatMiss /\ lastOp.strategy = "free-api") =>
            /\ ~Called("local.chat")
            /\ Called("free_api.chat")
            /\ \A i \in CallsOf(calls, "free_api.chat") :
                    /\ calls[i].opt = "auto"
                    /\ calls[i].err # NoError => result = Raised(calls[i].err)

C8_Witness ==
    /\ ChatMiss
    /\ lastOp.strategy = "free-api"
    /\ result.status = "raised"
    /\ result.error.type = "QuotaExceededError"

Dispatched ==
    lastOp.op = "chat" /\ result.status = "returned" /\ result.source # "cache"

\* C9: a chat that a provider answered called the providers with the text the
\* compressor returned, and ends with its one cache.set call, whose arguments
\* are the original prompt and the provider's response.
C9_WriteBack ==
    Dispatched =>
        /\ calls[2].fn = "compressor.compress"
        /\ calls[2].err = NoError => \A i \in ProviderCalls : calls[i].arg = calls[2].ret
        /\ Cardinality(CallsOf(calls, "cache.set")) = 1
        /\ calls[Len(calls)] =
                Call("cache.set", lastOp.prompt, result.response, "", EmptyText, NoError)
        /\ \E i \in ProviderCalls : calls[i].err = NoError /\ calls[i].ret = result.response

C9_Witness ==
    /\ Dispatched
    /\ calls[2].err = NoError
    /\ calls[2].ret # lastOp.prompt
    /\ result.source = "free-api"

CompressFailed ==
    ChatMiss /\ Len(calls) >= 2 /\ calls[2].fn = "compressor.compress"
        /\ calls[2].err # NoError

\* C10: when the compressor fails, chat goes on to the dispatch with the
\* original prompt, does not raise the compressor's failure, and a response
\* comes back with tokens_saved 0.
C10_CompressRecovered ==
    CompressFailed =>
        /\ Len(calls) >= 3
        /\ \A i \in ProviderCalls : calls[i].arg = lastOp.prompt
        /\ result.status = "raised" => result.error # calls[2].err
        /\ result.status = "returned" => result.tokens_saved = 0

C10_Witness == CompressFailed /\ result.status = "returned" /\ result.source = "local"

(***************************************************************************)
(* Properties of validation, of the failure kinds and of the response.     *)
(***************************************************************************)
InvalidChat(op) ==
    op.op = "chat"
        /\ (IsBlank(op.prompt) \/ op.strategy \notin {"smart", "local", "free-api", "cache-only"})

\* C11: a chat with a blank prompt or an unknown strategy raises ValueError
\* (for an unknown strategy the message lists the four valid ones), and that
\* call leaves the cache and its counters as they were and calls neither the
\* cache, nor the compressor, nor a provider.
C11_ValidationFirst ==
    [][InvalidChat(lastOp') =>
            /\ result'.status = "raised"
            /\ result'.error.type = "ValueError"
            /\ ~IsBlank(lastOp'.prompt) =>
                    /\ Len(result'.error.parts) = 4
                    /\ {result'.error.parts[i] : i \in 1..4}
                            = {"smart", "local", "free-api", "cache-only"}
            /\ calls' = << >>
            /\ cache' = cache
            /\ usage' = usage
            /\ quota_file' = quota_file]_vars

\* an invalid strategy with a prompt the cache would have answered
C11_Witness ==
    /\ InvalidChat(lastOp)
    /\ ~IsBlank(lastOp.prompt)
    /\ result.status = "raised"
    /\ SemanticCache_get(cache, lastOp.prompt, now).value # None

\* the cause of a failed chat, among the causes the taxonomy names
CauseOf(op, res, trace, ks) ==
    CASE trace = << >> -> "malformed input"
      [] op.strategy = "cache-only" -> "cache-only miss"
      [] res.error.type = "RoutingError" -> "all providers failed"
      [] res.error.type = "OllamaError" /\ res.error.msg = "not available"
            -> "provider unavailable"
      [] res.error.type = "QuotaExceededError" /\ ks = {} -> "provider unavailable"
      [] res.error.type = "QuotaExceededError" -> "quota exceeded"
      [] OTHER -> "other"

\* C12: a failed chat and any other failed chat whose cause is a different one
\* of the named causes do not reach the caller with the same error type.
C12_DistinctKinds ==
    (lastOp.op = "chat" /\ result.status = "raised") =>
        \A prompt \in Prompts, strategy \in Strategies :
        \A env \in ConsultedEnvs(prompt, strategy) :
            LET o == SmartRouter_chat(cache, [usage |-> usage, quota_file |-> quota_file],
                                      keys, prompt, strategy, now, env)
                mine == CauseOf(lastOp, result, calls, keys)
                other == CauseOf(Op("chat", prompt, strategy), o.result, o.calls, keys)
            IN (o.result.status = "raised" /\ mine # "other" /\ other # "other"
                    /\ mine # other)
                  => o.result.error.type # result.error.type

\* C13: a response chat returns has source cache, local or free-api, the
\* source is the component whose call produced the text, cost is 0,
\* tokens_saved is not negative, it is 0 on a hit and the difference of the
\* token counts the compressor reported on a miss.
C13_ResponseInvariant ==
    (lastOp.op = "chat" /\ result.status = "returned") =>
        /\ result.source \in {"cache", "local", "free-api"}
        /\ result.cost = 0
        /\ result.tokens_saved >= 0
        /\ result.source = "cache" =>
                /\ ChatHit
                /\ result.response = calls[1].ret
                /\ result.tokens_saved = 0
        /\ result.source # "cache" =>
                /\ ChatMiss
                /\ \E i \in CallsOf(calls, IF result.source = "local" THEN "local.chat"
                                           ELSE "free_api.chat") :
                        calls[i].err = NoError /\ calls[i].ret = result.response
                /\ calls[2].err = NoError =>
                        \E co \in CompressOutcomes :
                            /\ ~co.raised
                            /\ co.compressed_text = calls[2].ret
                            /\ result.tokens_saved = co.original_tokens - co.compressed_tokens

(***************************************************************************)
(* Properties of the cache: blank queries, failures, the threshold, the    *)
(* capacity and the sweep.                                                 *)
(***************************************************************************)
\* C14: get with an empty or whitespace-only query returns None, adds one to
\* total_queries and to cache_misses, and changes nothing else of the cache:
\* no sweep, no index or row is touched.
C14_BlankGet ==
    [][(lastOp'.op = "get" /\ IsBlank(lastOp'.prompt)) =>
            /\ result' = None
            /\ cache' = [cache EXCEPT !.total_queries = @ + 1, !.cache_misses = @ + 1]]_vars

\* a blank query on the call on which a sweep is due, with an expired row stored
C14_Witness ==
    /\ lastOp.op = "get"
    /\ IsBlank(lastOp.prompt)
    /\ cache.total_queries = SweepEvery
    /\ \E i \in 1..Len(cache.rows) : cache.rows[i].timestamp < now - cache.ttl

\* C15: a failure of the embedding or of the index search does not leave get;
\* get returns None and counts a miss.
C15_GetFailsSoft ==
    [][lastOp'.op = "get" =>
            /\ result'.tag # "Raised"
            /\ result'.tag = "None" => cache'.cache_misses = cache.cache_misses + 1]_vars

\* the greatest similarity of v to a vector of the index
BestSimilarity(index, v) ==
    CHOOSE s \in {InnerProduct(index[i], v) : i \in 1..Len(index)} :
        \A i \in 1..Len(index) : InnerProduct(index[i], v) <= s

\* the first row whose similarity to v is s
NearestRow(c, v, s) ==
    c.rows[CHOOSE i \in 1..Len(c.rows) :
                /\ InnerProduct(Normalize(c.rows[i].embedding), v) = s
                /\ \A j \in 1..(i - 1) : InnerProduct(Normalize(c.rows[j].embedding), v) # s]

\* what a get of query that found the cache c0 and left it as c must have returned
ThresholdDecides(c0, c, query, res) ==
    IF BestSimilarity(c.index, GenerateEmbedding(query)) >= c.threshold
    THEN /\ res = Some(NearestRow(c, GenerateEmbedding(query),
                          BestSimilarity(c.index, GenerateEmbedding(query))).response_text)
         /\ c.cache_hits = c0.cache_hits + 1
         /\ c.cache_misses = c0.cache_misses
    ELSE /\ res = None
         /\ c.cache_misses = c0.cache_misses + 1
         /\ c.cache_hits = c0.cache_hits

ThresholdsCompared == {60, 80, 100}

GetAt(threshold, query) ==
    SemanticCache_get([cache EXCEPT !.threshold = threshold], query, now).value

\* C17: of two caches with the same contents, the one with the lower threshold
\* answers every query the other one answers, with the same response (the
\* contents are those of the cache between two calls).
C17_ThresholdMonotone ==
    lastOp = Idle =>
        \A q \in {x \in Queries : ~IsBlank(x)} :
            \E answer \in {[t \in ThresholdsCompared |-> GetAt(t, q)]} :
                \A hi \in ThresholdsCompared :
                \A lo \in {t \in ThresholdsCompared : t <= hi} :
                    answer[hi] # None => answer[lo] = answer[hi]

\* a query that hits at the cache's threshold and at a lower one, and misses
\* at a higher one
C17_Witness ==
    /\ lastOp = Idle
    /\ \E q \in Queries, hi \in ThresholdsCompared, lo \in ThresholdsCompared :
        /\ lo < cache.threshold
        /\ cache.threshold < hi
        /\ GetAt(hi, q) = None
        /\ GetAt(cache.threshold, q) # None
        /\ GetAt(lo, q) = GetAt(cache.threshold, q)

\* C18: the number of stored entries never exceeds max_size, and a set that
\* finds the store full and inserts does not leave more entries than it found.
C18_CapacityBound ==
    /\ [](Len(cache.rows) <= cache.max_size)
    /\ [][(/\ lastOp'.op = "set"
           /\ cache'.next_id = cache.next_id + 1
           /\ Len(cache.rows) >= cache.max_size)
                => Len(cache'.rows) <= Len(cache.rows)]_vars

\* a third insert into a store of two, with no clear and no sweep before it
C18_Witness ==
    /\ lastOp.op = "set"
    /\ Len(cache.rows) = cache.max_size
    /\ cache.next_id = cache.max_size + 2
    /\ cache.total_queries = SweepEvery - 2

SweepRan(c, c1, op) ==
    /\ op.op = "get"
    /\ ~IsBlank(op.prompt)
    /\ c1.total_queries % SweepEvery = 0
    /\ c.ttl > 0

Retrievable(c, row, t) ==
    SemanticCache_get(c, row.query_text, t).value = Some(row.response_text)

\* what a sweep at time t that found the cache c0 leaves as c
SweepEffect(c0, c, t) ==
    /\ \A i \in 1..Len(c0.rows) :
        IF t - c0.rows[i].timestamp > c0.ttl
        THEN c0.rows[i].id \notin RowIds(c.rows)
        ELSE /\ c0.rows[i].id \in RowIds(c.rows)
             /\ Retrievable(c0, c0.rows[i], t) => Retrievable(c, c0.rows[i], t)
    /\ Len(c.index) = Len(c.rows)
    /\ {c.id_map[p] : p \in DOMAIN c.id_map} = RowIds(c.rows)

\* C20: a sweep removes every entry older than ttl, from the table and from
\* the index, so that no later get can return it; it removes no entry whose age
\* is at most ttl, and such an entry that get returned for its own query before
\* the sweep is still returned for it after.
C20_TtlSweep ==
    [][SweepRan(cache, cache', lastOp') => SweepEffect(cache, cache', now)]_vars

\* a sweep that removed one entry and kept one whose age is exactly ttl
C20_Witness ==
    /\ lastOp.op = "get"
    /\ ~IsBlank(lastOp.prompt)
    /\ cache.total_queries = SweepEvery
    /\ Len(cache.rows) = 1
    /\ cache.rows[1].id = 2
    /\ now - cache.rows[1].timestamp = cache.ttl

\* the ids set deleted from the rows it found
Evicted(c0, c) == RowIds(c0.rows) \ RowIds(c.rows)

\* what a set that inserted into the cache c0 and left it as c has evicted
LruChoice(c0, c) ==
    IF Len(c0.rows) >= c0.max_size
    THEN /\ Cardinality(Evicted(c0, c)) =
                (IF Len(c0.rows) \div 10 >= 1 THEN Len(c0.rows) \div 10 ELSE 1)
         /\ \A i \in 1..Len(c0.rows), j \in 1..Len(c0.rows) :
                (c0.rows[i].id \in Evicted(c0, c) /\ c0.rows[j].id \notin Evicted(c0, c))
                    => \/ c0.rows[i].last_accessed < c0.rows[j].last_accessed
                       \/ /\ c0.rows[i].last_accessed = c0.rows[j].last_accessed
                          /\ c0.rows[i].id < c0.rows[j].id
    ELSE Evicted(c0, c) = {}

\* C19: a set that finds count >= max_size deletes exactly max(1, count // 10)
\* entries, those first in the order of last_accessed and then id, so no
\* surviving entry was accessed before an evicted one; a set that finds
\* count < max_size deletes nothing.
C19_LruEviction ==
    [][(lastOp'.op = "set" /\ cache'.next_id = cache.next_id + 1)
            => LruChoice(cache, cache')]_vars

\* an eviction of two entries that spared an older entry accessed since
C19_Witness ==
    /\ lastOp.op = "set"
    /\ Len(cache.rows) = EvictSize - 1
    /\ 1 \in RowIds(cache.rows)
    /\ RowById(cache.rows, 1).last_accessed > 0
    /\ {2, 3} \cap RowIds(cache.rows) = {}

\* a set whose query or response is blank (empty or whitespace only)
BlankSet(op) == op.op = "set" /\ (IsBlank(op.prompt) \/ IsBlank(op.response))

\* C21: a set whose query or response is blank (empty or whitespace-only)
\* stores nothing: the rows, the index and the statistics counters are the
\* same after the call as before it.
C21_BlankSetNoOp ==
    [][BlankSet(lastOp') =>
            /\ cache'.rows = cache.rows
            /\ cache'.index = cache.index
            /\ cache'.id_map = cache.id_map
            /\ cache'.total_queries = cache.total_queries
            /\ cache'.cache_hits = cache.cache_hits
            /\ cache'.cache_misses = cache.cache_misses]_vars

\* no query of the driver is answered by cache c at time t or later
AnswersNothing(c, t) ==
    \A q \in Queries, t2 \in t..MaxTime : SemanticCache_get(c, q, t2).value = None

\* C22: after clear() the store holds no entry, the index no vector, the
\* three counters are 0, and a get of any query, at any later time, returns
\* None as long as the store is empty.
C22_ClearEmpties ==
    /\ lastOp.op = "clear" =>
            /\ cache.rows = << >>
            /\ cache.index = << >>
            /\ cache.id_map = << >>
            /\ cache.total_queries = 0
            /\ cache.cache_hits = 0
            /\ cache.cache_misses = 0
    /\ (cache.rows = << >> /\ lastOp.op \in {"clear", "idle"}) => AnswersNothing(cache, now)

\* clear() has been called on a store that held rows
C22_Witness ==
    /\ lastOp.op = "clear"
    /\ now = 0
    /\ cache.next_id = MaxRowId + 1

\* C23: every completed get adds one to total_queries and one to exactly one
\* of cache_hits and cache_misses, so that total_queries = cache_hits +
\* cache_misses in every state; set leaves the counters alone; hit_rate of
\* stats() is cache_hits / total_queries, and 0 when total_queries is 0.
C23_StatsAccounting ==
    /\ [](/\ cache.total_queries = cache.cache_hits + cache.cache_misses
          /\ SemanticCache_stats(cache).hit_rate.num * cache.total_queries
                = cache.cache_hits * SemanticCache_stats(cache).hit_rate.den
          /\ cache.total_queries = 0 => SemanticCache_stats(cache).hit_rate.num = 0)
    /\ [][(lastOp'.op = "get" /\ result'.tag # "Raised") =>
            /\ cache'.total_queries = cache.total_queries + 1
            /\ \/ /\ cache'.cache_hits = cache.cache_hits + 1
                  /\ cache'.cache_misses = cache.cache_misses
               \/ /\ cache'.cache_hits = cache.cache_hits
                  /\ cache'.cache_misses = cache.cache_misses + 1]_vars
    /\ [][lastOp'.op = "set" =>
            /\ cache'.total_queries = cache.total_queries
            /\ cache'.cache_hits = cache.cache_hits
            /\ cache'.cache_misses = cache.cache_misses]_vars

\* the limits of the three providers, and the counters once the windows have
\* been rolled over at time t
DailyLimitOk(p, n) == p = "gemini" => n < GeminiRpd

MinuteLimitOk(p, n) == (p = "gemini" => n < GeminiRpm) /\ (p = "groq" => n < GroqRpm)

RolledToday(stats, t) ==
    IF t - (t % DaySeconds) > stats.daily_reset_time THEN 0 ELSE stats.requests_today

RolledMinute(stats, t) ==
    IF t - stats.minute_window_start >= MinuteSeconds THEN 0 ELSE stats.requests_this_minute

\* C24: check_quota(provider) is true exactly if, with the windows rolled
\* over, requests_today is below the daily limit and requests_this_minute is
\* below the per-minute limit; a limit the provider does not have is met by
\* every counter value.
C24_CheckQuotaResult ==
    \A p \in ProviderNames :
        CheckQuota(usage, p, now).value
            <=> /\ DailyLimitOk(p, RolledToday(usage[p], now))
                /\ MinuteLimitOk(p, RolledMinute(usage[p], now))

\* gemini has served its daily limit and is refused with room in the minute
C24_Witness ==
    /\ usage["gemini"].requests_today = GeminiRpd
    /\ usage["gemini"].requests_this_minute < GeminiRpm
    /\ usage["deepseek"].requests_today > 0
    /\ ~CheckQuota(usage, "gemini", now).value
    /\ CheckQuota(usage, "deepseek", now).value

\* C25: a provider whose requests_this_minute has reached its per-minute
\* limit is refused by check_quota, with the counters left alone, as long as
\* fewer than 60 seconds have passed since minute_window_start; the first
\* check 60 seconds or more after it sets requests_this_minute to 0 and
\* minute_window_start to now and is true again if the daily limit permits.
C25_MinuteWindow ==
    \A p \in {"gemini", "groq"} :
        \E q \in {CheckQuota(usage, p, now)} :
            /\ (/\ ~MinuteLimitOk(p, usage[p].requests_this_minute)
                /\ now - usage[p].minute_window_start < 60) =>
                    /\ ~q.value
                    /\ q.usage[p] = usage[p]
            /\ now - usage[p].minute_window_start >= 60 =>
                    /\ q.usage[p].requests_this_minute = 0
                    /\ q.usage[p].minute_window_start = now
                    /\ q.value <=> DailyLimitOk(p, usage[p].requests_today)

\* gemini was used up to its limit in the first window and is selected again
\* by the first check of the next one
C25_Witness ==
    /\ lastOp.op = "select"
    /\ result.source = "gemini"
    /\ usage["gemini"].requests_today = GeminiRpm
    /\ usage["gemini"].requests_this_minute = 0
    /\ usage["gemini"].minute_window_start = now
    /\ now = MinuteSeconds

\* provider p has a key and quota
Qualifies(p) == p \in keys /\ CheckQuota(usage, p, now).value

\* the place of a provider in the order deepseek, groq, gemini
Rank(p) == CASE p = "deepseek" -> 1 [] p = "groq" -> 2 [] OTHER -> 3

\* C26: automatic selection returns the first provider of deepseek, groq,
\* gemini that has a credential and quota, and none exactly if no provider
\* has both.
C26_ProviderSelection ==
    \E sel \in {GetAvailableProvider(usage, keys, now).provider} :
        /\ sel = "None" <=> ~\E p \in ProviderNames : Qualifies(p)
        /\ sel # "None" =>
                /\ sel \in ProviderNames
                /\ Qualifies(sel)
                /\ \A p \in ProviderNames : Rank(p) < Rank(sel) => ~Qualifies(p)

\* groq has a key and is out of quota, and gemini was selected
C26_Witness ==
    /\ lastOp.op = "select"
    /\ result.source = "gemini"
    /\ "groq" \in keys
    /\ usage["groq"].requests_this_minute = GroqRpm

\* C27: a chat call that reached the outbound call for provider P leaves P's
\* requests_today and requests_this_minute one higher than they were (with
\* the windows rolled over) and last_request_time at the time of the call,
\* whether the provider call succeeded or failed.
C27_UsageRecordedOnce ==
    [][(lastOp'.op = "free_chat" /\ calls' # << >>) =>
        \E P \in {calls'[1].opt} :
            /\ usage'[P].requests_today = RolledToday(usage[P], now) + 1
            /\ usage'[P].requests_this_minute = RolledMinute(usage[P], now) + 1
            /\ usage'[P].last_request_time = now]_vars

\* C28: when chat of the tracker has returned a response, quotas.json holds
\* the counters of the tracker, the increment of this call included: a new
\* tracker on the same directory loads the same requests_today and
\* requests_this_minute for every provider.
C28_QuotaDurability ==
    (lastOp.op = "free_chat" /\ result.status = "returned") =>
        \E l \in {LoadUsage(quota_file, now)} :
            /\ ~l.raised
            /\ DOMAIN l.usage = ProviderNames
            /\ \A p \in ProviderNames :
                /\ l.usage[p].requests_today = usage[p].requests_today
                /\ l.usage[p].requests_this_minute = usage[p].requests_this_minute

\* a chat has returned in the second minute, after the window of its provider
\* was rolled over in memory
C28_Witness ==
    /\ lastOp.op = "free_chat"
    /\ result.status = "returned"
    /\ now >= MinuteSeconds
    /\ usage[result.source].minute_window_start = now
    /\ usage[result.source].requests_today > 1

\* C29: chat with a named provider fails with the unknown-provider error for
\* a name that is not in the table, else with the missing-credential error
\* when the provider has no key, else with QuotaExceededError when it has no
\* quota left; none of the three makes the outbound call or raises a counter.
NoCallNoIncrement ==
    /\ calls' = << >>
    /\ quota_file' = quota_file
    /\ \A p \in ProviderNames :
        /\ usage'[p].requests_today <= usage[p].requests_today
        /\ usage'[p].requests_this_minute <= usage[p].requests_this_minute

FailsWith(type, msg) ==
    /\ result'.status = "raised"
    /\ result'.error.type = type
    /\ result'.error.msg = msg
    /\ NoCallNoIncrement

C29_NamedProviderFailures ==
    [][(lastOp'.op = "free_chat" /\ lastOp'.strategy # "auto") =>
        \E P \in {lastOp'.strategy} :
            /\ P \notin {"gemini", "groq", "deepseek"} => FailsWith("ValueError", "unknown provider")
            /\ (P \in {"gemini", "groq", "deepseek"} /\ P \notin keys) =>
                    FailsWith("ValueError", "no api key")
            /\ (P \in {"gemini", "groq", "deepseek"} /\ P \in keys
                    /\ ~CheckQuota(usage, P, now).value) =>
                    /\ result'.status = "raised"
                    /\ result'.error.type = "QuotaExceededError"
                    /\ NoCallNoIncrement]_vars

\* gemini was named, has a key and had no quota left
C29_Witness ==
    /\ lastOp.op = "free_chat"
    /\ lastOp.strategy = "gemini"
    /\ "gemini" \in keys
    /\ result.status = "raised"
    /\ result.error.type = "QuotaExceededError"
    /\ usage["gemini"].requests_this_minute = GeminiRpm

\* C30: opening the tracker does not fail on any content of quotas.json, and
\* the tracker it gives has a usage record for every provider of the table.
C30_CorruptStateRecovered ==
    [][lastOp'.op = "restart" =>
            /\ result'.status # "raised"
            /\ DOMAIN usage' = ProviderNames]_vars

\* quotas.json holds content that _load_usage answers by reinitializing: text
\* that is not JSON, or an object with an entry that lacks fields of UsageStats
Malformed(file) ==
    \/ file.state = "not_json"
    \/ /\ file.state = "mapping"
       /\ \E p \in DOMAIN file.data : DOMAIN file.data[p] # UsageFields

\* C31: content of quotas.json that the tracker found malformed when it
\* loaded it is not replaced by a later operation of the tracker (the code
\* keeps no copy and writes no log of it, so it is preserved only as long as
\* it is in the file).
C31_CorruptFilePreserved ==
    [][(Malformed(quota_file) /\ lastOp'.op \in {"free_chat", "select"}) =>
            quota_file' = quota_file]_vars

\* C32: a new SemanticCache on the same database file holds every row of the
\* old one, has every row in its index, answers each query as the old one
\* did, and starts its three counters at 0.
C32_CacheRestart ==
    [][lastOp'.op = "reopen" =>
            /\ cache'.rows = cache.rows
            /\ Len(cache'.index) = Len(cache'.rows)
            /\ {cache'.id_map[p] : p \in DOMAIN cache'.id_map} = RowIds(cache'.rows)
            /\ \A q \in {x \in Queries : ~IsBlank(x)} :
                    Lookup(cache', q, now).value = Lookup(cache, q, now).value
            /\ cache'.total_queries = 0
            /\ cache'.cache_hits = 0
            /\ cache'.cache_misses = 0]_vars

\* a cache that had counted hits was reopened and still answers a query
C32_Witness ==
    /\ lastOp.op = "reopen"
    /\ Len(cache.rows) = 2
    /\ cache.total_queries = 0
    /\ \E i \in 1..Len(cache.rows) : cache.rows[i].access_count > 0
    /\ Lookup(cache, QA, now).value # None

\* the index and the position map of c match the table of c
IndexMatchesStore(c) ==
    /\ Len(c.index) = Len(c.rows)
    /\ DOMAIN c.id_map = 0..(Len(c.rows) - 1)
    /\ {c.id_map[p] : p \in DOMAIN c.id_map} = RowIds(c.rows)
    /\ \A p, r \in DOMAIN c.id_map : c.id_map[p] = c.id_map[r] => p = r
    /\ \A p \in DOMAIN c.id_map :
            c.index[p + 1] = Normalize(RowById(c.rows, c.id_map[p]).embedding)

\* C33: with calls one after the other, after every set, eviction, sweep,
\* clear and re-open the index has as many vectors as the table has rows,
\* the position map is one-to-one from the positions 0..n-1 onto the row ids,
\* and position i holds the embedding of row id_map[i].
C33_IndexStoreConsistency == IndexMatchesStore(cache)

\* the cache was reopened after an eviction had rebuilt the index
C33_Witness ==
    /\ lastOp.op = "reopen"
    /\ cache.next_id = MaxRowId + 1
    /\ Len(cache.rows) = 2
    /\ cache.rows[1].id = 2
    /\ cache.id_map[0] = 2

\* the ids of the rows of c that a sweep at time t deletes
ExpiredIds(c, t) ==
    IF c.ttl <= 0 THEN {}
    ELSE {c.rows[i].id : i \in {k \in 1..Len(c.rows) : c.rows[k].timestamp < t - c.ttl}}

\* what a get leaves of cache c as c1 when a sweep was due (or not) at time t
CadenceEffect(c, c1, due, t) ==
    IF due
    THEN /\ RowIds(c1.rows) = RowIds(c.rows) \ ExpiredIds(c, t)
         /\ IF ExpiredIds(c, t) = {}
            THEN c1.index = c.index /\ c1.id_map = c.id_map
            ELSE IndexMatchesStore(c1)
    ELSE /\ RowIds(c1.rows) = RowIds(c.rows)
         /\ c1.index = c.index
         /\ c1.id_map = c.id_map

\* C34: a call of get with a non-blank query at which total_queries, after
\* its increment, is a multiple of 100 sweeps the expired entries before the
\* lookup and rebuilds the index exactly if an entry was deleted; no other
\* call of get sweeps, a 100th call with a blank query included.
C34_SweepCadence ==
    [][lastOp'.op = "get" =>
        CadenceEffect(cache, cache',
            (cache.total_queries + 1) % 100 = 0 /\ ~IsBlank(lastOp'.prompt), now)]_vars

\* the same with the sweep on every 100th call, whatever its query
C34_SweepCadenceAnyQuery ==
    [][lastOp'.op = "get" =>
        CadenceEffect(cache, cache', (cache.total_queries + 1) % 100 = 0, now)]_vars

\* the 100th get, with a non-blank query, has swept the only row
C34_Witness ==
    /\ lastOp.op = "get"
    /\ ~IsBlank(lastOp.prompt)
    /\ cache.total_queries = 100
    /\ cache.next_id = 2
    /\ cache.rows = << >>
    /\ cache.index = << >>

\* the access metadata of the row with this id in c
AccessOf(c, id) ==
    [access_count |-> RowById(c.rows, id).access_count,
     last_accessed |-> RowById(c.rows, id).last_accessed]

\* C35: a get that hits entry e adds exactly 1 to e.access_count and sets
\* e.last_accessed to the current time, and leaves every other entry as it
\* was; a get that misses, and every set, leave access_count and
\* last_accessed of all entries that stay unchanged; for every entry
\* access_count is never negative and last_accessed is not before created_at.
C35_AccessMetadataFrame ==
    /\ [](\A i \in 1..Len(cache.rows) :
            /\ cache.rows[i].access_count >= 0
            /\ cache.rows[i].last_accessed >= cache.rows[i].timestamp)
    /\ [][\A id \in RowIds(cache.rows) \cap RowIds(cache'.rows) :
            AccessOf(cache', id).access_count >= AccessOf(cache, id).access_count]_vars
    /\ [][(lastOp'.op = "get" /\ result'.tag = "Some") =>
            \E e \in RowIds(cache.rows) \cap RowIds(cache'.rows) :
                /\ Some(RowById(cache.rows, e).response_text) = result'
                /\ AccessOf(cache', e) =
                        [access_count |-> AccessOf(cache, e).access_count + 1,
                         last_accessed |-> now]
                /\ \A id \in (RowIds(cache.rows) \cap RowIds(cache'.rows)) \ {e} :
                        RowById(cache'.rows, id) = RowById(cache.rows, id)]_vars
    /\ [][(lastOp'.op = "set" \/ (lastOp'.op = "get" /\ result'.tag # "Some")) =>
            \A id \in RowIds(cache.rows) \cap RowIds(cache'.rows) :
                RowById(cache'.rows, id) = RowById(cache.rows, id)]_vars

\* a hit at a later time than the insertion, with another entry stored
C35_Witness ==
    /\ lastOp.op = "get"
    /\ result.tag = "Some"
    /\ now > 0
    /\ Len(cache.rows) = 2
    /\ \E i, j \in 1..Len(cache.rows) :
        /\ cache.rows[i].access_count = 2
        /\ cache.rows[i].last_accessed = now
        /\ cache.rows[i].timestamp = 0
        /\ cache.rows[j].access_count = 0

\* midnight UTC of the current day
MidnightNow == now - (now % 86400)

\* C36: the rollover check sets requests_today to 0, and the stored daily
\* boundary to the current UTC midnight, exactly when that midnight is later
\* than the stored boundary; within one UTC day requests_today is never
\* reset, however long ago the first request was.
C36_DailyWindow ==
    /\ [](\A p \in ProviderNames :
            \E q \in {CheckQuota(usage, p, now).usage[p]} :
                IF MidnightNow > usage[p].daily_reset_time
                THEN q.requests_today = 0 /\ q.daily_reset_time = MidnightNow
                ELSE /\ q.requests_today = usage[p].requests_today
                     /\ q.daily_reset_time = usage[p].daily_reset_time)
    /\ [][\A p \in ProviderNames :
            usage'[p].requests_today < usage[p].requests_today =>
                /\ MidnightNow > usage[p].daily_reset_time
                /\ usage'[p].daily_reset_time = MidnightNow]_vars

\* gemini was used in the last second of a day and starts the next day at 0
C36_Witness ==
    /\ now = 86400
    /\ usage["gemini"].last_request_time = 86399
    /\ usage["gemini"].requests_today = 0
    /\ usage["gemini"].daily_reset_time = 86400
    /\ usage["groq"].requests_today > 0
    /\ usage["groq"].daily_reset_time = 0

\* C39: with the chat calls one after the other, requests_this_minute of a
\* provider with a per-minute limit and requests_today of a provider with a
\* daily limit never exceed the limit, and no outbound call goes to a
\* provider whose counter, in the current window, has reached its limit.
C39_LimitsNeverExceeded ==
    /\ [](/\ usage["gemini"].requests_this_minute <= 15
          /\ usage["gemini"].requests_today <= 1000
          /\ usage["groq"].requests_this_minute <= 30)
    /\ [][(lastOp'.op = "free_chat" /\ calls' # << >>) =>
            \E P \in {calls'[1].opt} :
                /\ DailyLimitOk(P, RolledToday(usage[P], now))
                /\ MinuteLimitOk(P, RolledMinute(usage[P], now))]_vars

\* gemini is at its per-minute limit and a chat was refused without a call
C39_Witness ==
    /\ usage["gemini"].requests_this_minute = 15
    /\ lastOp.op = "free_chat"
    /\ "gemini" \in keys
    /\ lastOp.strategy \in {"auto", "gemini"}
    /\ result.status = "raised"
    /\ result.error.type = "QuotaExceededError"
    /\ calls = << >>

\* C40: a chat that ends in a failure has not called cache.set: the cache has
\* the rows it had and has assigned no new id; and unless the arguments were
\* invalid, the same prompt, probed again now or later, misses.
C40_FailedChatWritesNothing ==
    [][(lastOp'.op = "chat" /\ result'.status = "raised") =>
            /\ CallsOf(calls', "cache.set") = {}
            /\ RowIds(cache'.rows) \subseteq RowIds(cache.rows)
            /\ Len(cache'.index) <= Len(cache.index)
            /\ cache'.next_id = cache.next_id
            /\ ~InvalidChat(lastOp') =>
                    /\ CallsOf(calls', "cache.get") # {}
                    /\ \A t \in now..MaxTime :
                            SemanticCache_get(cache', lastOp'.prompt, t).value = None]_vars

\* a chat failed after the probe and the dispatch, with an entry of an earlier
\* chat in the cache
C40_Witness ==
    /\ lastOp.op = "chat"
    /\ result.status = "raised"
    /\ lastOp.strategy = "smart"
    /\ CallsOf(calls, "cache.get") # {}
    /\ Len(calls) > 2
    /\ Len(cache.rows) = 1

\* the rows of c that match this query at or above the threshold of c
MatchingRows(c, query) ==
    {i \in 1..Len(c.rows) :
        InnerProduct(Normalize(c.rows[i].embedding), GenerateEmbedding(query))
            >= c.threshold}

\* C37: a get that runs while another thread rebuilds the index (eviction in
\* a set, sweep, clear) returns only the response of an entry whose
\* embedding matches its query at or above the threshold.
C37_GetVersusRebuild ==
    [][\A t \in Threads :
        (threads[t].pc = "get_found" /\ threads'[t].pc = "done"
            /\ threads'[t].value # None) =>
                \E i \in MatchingRows(cache, threads[t].query) :
                    Some(cache.rows[i].response_text) = threads'[t].value]_vars

\* no thread is in the middle of a set
NoSetInFlight == \A t \in Threads : threads[t].pc \in {"idle", "done"}

\* C38: when two calls of set have interleaved and both are complete, every
\* index position is mapped to the row whose embedding it holds, and every
\* entry is returned for its exact query.
C38_InterleavedSets ==
    NoSetInFlight =>
        /\ IndexMatchesStore(cache)
        /\ \A i \in 1..Len(cache.rows) :
                Lookup(cache, cache.rows[i].query_text, now).value # None

====
